---- MODULE Spec2Model ----
(***************************************************************************)
(* Student Management System (src/main.cpp).                               *)
(*                                                                         *)
(* The registry (class StudentManagement) owns a vector of students and a  *)
(* vector of courses.  A text is a sequence of one-character strings, so   *)
(* that the CSV export and the getline-based CSV load are modelled by what *)
(* they do to the characters ',' ';' and '\n'.                             *)
(*                                                                         *)
(* Modelled menu choices: 0 to 12, and the start of the program            *)
(* (loadData).  Choice 13 (populateDummyData) is a fixed sequence          *)
(* of addStudent, addCourse and enrollStudentInCourse calls on five        *)
(* students and four courses, above the sizes explored here.               *)
(***************************************************************************)
EXTENDS Integers, Sequences, FiniteSets, TLC

\* ------------------------------------------------------------------------
\* Bounds of the model
\* ------------------------------------------------------------------------
MaxStudents == 2
MaxCourses == 2
MaxCmds == 4
MaxOps == 6
MaxMenuCmds == 3

\* ------------------------------------------------------------------------
\* Texts
\* ------------------------------------------------------------------------
NL == "\n"

UNDERGRADUATE == <<"U","n","d","e","r","g","r","a","d","u","a","t","e">>

POSTGRADUATE == <<"P","o","s","t","g","r","a","d","u","a","t","e">>

StudentsHeader == <<"S","t","u","d","e","n","t","I","D",",","N","a","m","e",",","T","y","p","e",",","E","n","r","o","l","l","e","d","C","o","u","r","s","e","s">>

CoursesHeader == <<"C","o","u","r","s","e","C","o","d","e",",","C","o","u","r","s","e","N","a","m","e",",","E","n","r","o","l","l","e","d","S","t","u","d","e","n","t","s">>

ESC == <<"e","s","c">>

UpperCase == <<"A","B","C","D","E","F","G","H","I","J","K","L","M","N","O","P","Q","R","S","T","U","V","W","X","Y","Z">>

LowerCase == <<"a","b","c","d","e","f","g","h","i","j","k","l","m","n","o","p","q","r","s","t","u","v","w","x","y","z">>

Digits == {"0","1","2","3","4","5","6","7","8","9"}

isspace(c) == c \in {" ", "\t", "\n", "\r"}

isdigit(c) == c \in Digits

\* the lower-case letter of each upper-case letter
LowerOf == [u \in {UpperCase[i] : i \in 1..26} |-> LowerCase[CHOOSE i \in 1..26 : UpperCase[i] = u]]

tolower(c) == IF c \in DOMAIN LowerOf THEN LowerOf[c] ELSE c

toLower(s) == [i \in 1..Len(s) |-> tolower(s[i])]

\* trim: drop the white space at both ends (an all-blank text gives the empty text)
trim(s) ==
  LET n == Len(s)
      nonBlank == {i \in 1..n : ~isspace(s[i])}
  IN IF nonBlank = {} THEN <<>>
     ELSE SubSeq(s, CHOOSE i \in nonBlank : \A j \in nonBlank : i <= j,
                    CHOOSE i \in nonBlank : \A j \in nonBlank : j <= i)

\* the cancellation test comparing the trimmed line with "esc" as it is typed
Cancels_CaseSensitive(raw) == trim(raw) = ESC

\* the cancellation test of getNonEmptyInput: the line, trimmed and in lower
\* case, is "esc", and OperationCancelledException is thrown
Cancels(raw) == toLower(trim(raw)) = ESC

\* getNonEmptyInput returns the trimmed line; it loops on an empty line and
\* throws on "esc", so it returns `t' for the typed line `raw' exactly when:
getNonEmptyInput(raw, t) == t = trim(raw) /\ t # <<>> /\ ~Cancels(raw)

isValidStudentID(studentID) ==
  /\ Len(studentID) = 4
  /\ studentID[1] = "S"
  /\ \A i \in 2..Len(studentID) : isdigit(studentID[i])

\* getValidStudentType loops until the typed text is one of the two words
getValidStudentType(type) == type = UNDERGRADUATE \/ type = POSTGRADUATE

\* std::find(v.begin(), v.end(), x) != v.end()
Contains(v, x) == \E i \in 1..Len(v) : v[i] = x

\* v.erase(std::remove(v.begin(), v.end(), x), v.end())
EraseAll(v, x) == SelectSeq(v, LAMBDA e : e # x)

\* v.erase(v.begin() + idx), idx counted from 0
EraseAt(v, idx) == SubSeq(v, 1, idx) \o SubSeq(v, idx + 2, Len(v))

\* ------------------------------------------------------------------------
\* Entity records: Student (with its two subclasses) and Course
\* ------------------------------------------------------------------------
NewStudent(name, studentID, type) ==
  [name |-> name, studentID |-> studentID, type |-> type, enrolledCourses |-> <<>>]

NewCourse(courseName, courseCode) ==
  [courseName |-> courseName, courseCode |-> courseCode, enrolledStudentIDs |-> <<>>]

\* Student::addCourse putting the new code in front of the list
StudentAddCourse_InFront(st, courseCode) ==
  IF ~Contains(st.enrolledCourses, courseCode)
  THEN [st EXCEPT !.enrolledCourses = <<courseCode>> \o @]
  ELSE st

\* Student::addCourse
StudentAddCourse(st, courseCode) ==
  IF ~Contains(st.enrolledCourses, courseCode)
  THEN [st EXCEPT !.enrolledCourses = Append(@, courseCode)]
  ELSE st

\* Student::removeCourse
StudentRemoveCourse(st, courseCode) ==
  [st EXCEPT !.enrolledCourses = EraseAll(@, courseCode)]

\* Course::addStudent
CourseAddStudent(co, studentID) ==
  IF ~Contains(co.enrolledStudentIDs, studentID)
  THEN [co EXCEPT !.enrolledStudentIDs = Append(@, studentID)]
  ELSE co

\* Course::removeStudent
CourseRemoveStudent(co, studentID) ==
  [co EXCEPT !.enrolledStudentIDs = EraseAll(@, studentID)]

\* ------------------------------------------------------------------------
\* Registry operations.  Each takes the two collections and returns the two
\* collections after the call together with the message it printed last.
\* ------------------------------------------------------------------------
MsgStudentExists == "Student with ID already exists."
MsgUnknownType == "Unknown student type."
MsgStudentAdded == "Student added"
MsgStudentNotFound == "Student with ID not found."
MsgStudentRemoved == "Student removed"
MsgCourseExists == "Course with code already exists."
MsgCourseAdded == "Course added"
MsgCourseNotFound == "Course with code not found."
MsgCourseRemoved == "Course removed"
MsgAlreadyEnrolled == "Student is already enrolled in course"
MsgEnrolled == "Enrolled student in course"
MsgEitherNotFound == "Either student or course not found."
MsgUnenrolled == "Removed student from course"
MsgNone == ""

Result(s, c, m) == [students |-> s, courses |-> c, msg |-> m]

\* index of the first student with this id, counted from 0; -1 when absent
findStudentIndex(studs, studentID) ==
  IF \E i \in 1..Len(studs) : studs[i].studentID = studentID
  THEN (CHOOSE i \in 1..Len(studs) :
          /\ studs[i].studentID = studentID
          /\ \A j \in 1..(i-1) : studs[j].studentID # studentID) - 1
  ELSE -1

\* index of the first course with this code, counted from 0; -1 when absent
findCourseIndex(crs, courseCode) ==
  IF \E i \in 1..Len(crs) : crs[i].courseCode = courseCode
  THEN (CHOOSE i \in 1..Len(crs) :
          /\ crs[i].courseCode = courseCode
          /\ \A j \in 1..(i-1) : crs[j].courseCode # courseCode) - 1
  ELSE -1

\* addStudent making a student of whatever kind it is given
addStudent_AnyType(studs, crs, name, studentID, type) ==
  IF findStudentIndex(studs, studentID) # -1
  THEN Result(studs, crs, MsgStudentExists)
  ELSE Result(Append(studs, NewStudent(name, studentID, type)), crs, MsgStudentAdded)

\* addStudent without the search for the id
addStudent_NoDuplicateCheck(studs, crs, name, studentID, type) ==
  IF type = UNDERGRADUATE \/ type = POSTGRADUATE
  THEN Result(Append(studs, NewStudent(name, studentID, type)), crs, MsgStudentAdded)
  ELSE Result(studs, crs, MsgUnknownType)

addStudent(studs, crs, name, studentID, type) ==
  IF findStudentIndex(studs, studentID) # -1
  THEN Result(studs, crs, MsgStudentExists)
  ELSE IF type = UNDERGRADUATE \/ type = POSTGRADUATE
       THEN Result(Append(studs, NewStudent(name, studentID, type)), crs, MsgStudentAdded)
       ELSE Result(studs, crs, MsgUnknownType)

\* removeStudent without the loop over the courses
removeStudent_NoCascade(studs, crs, studentID) ==
  LET idx == findStudentIndex(studs, studentID)
  IN IF idx = -1
     THEN Result(studs, crs, MsgStudentNotFound)
     ELSE Result(EraseAt(studs, idx), crs, MsgStudentRemoved)

removeStudent(studs, crs, studentID) ==
  LET idx == findStudentIndex(studs, studentID)
  IN IF idx = -1
     THEN Result(studs, crs, MsgStudentNotFound)
     ELSE Result(EraseAt(studs, idx),
                 [i \in 1..Len(crs) |-> CourseRemoveStudent(crs[i], studentID)],
                 MsgStudentRemoved)

\* addCourse without the search for the code
addCourse_NoDuplicateCheck(studs, crs, courseName, courseCode) ==
  Result(studs, Append(crs, NewCourse(courseName, courseCode)), MsgCourseAdded)

addCourse(studs, crs, courseName, courseCode) ==
  IF findCourseIndex(crs, courseCode) # -1
  THEN Result(studs, crs, MsgCourseExists)
  ELSE Result(studs, Append(crs, NewCourse(courseName, courseCode)), MsgCourseAdded)

removeCourse(studs, crs, courseCode) ==
  LET idx == findCourseIndex(crs, courseCode)
  IN IF idx = -1
     THEN Result(studs, crs, MsgCourseNotFound)
     ELSE Result([i \in 1..Len(studs) |-> StudentRemoveCourse(studs[i], courseCode)],
                 EraseAt(crs, idx),
                 MsgCourseRemoved)

\* enrollStudentInCourse without the test on the student's list
enrollStudentInCourse_NoEnrolledCheck(studs, crs, studentID, courseCode) ==
  LET sIdx == findStudentIndex(studs, studentID)
      cIdx == findCourseIndex(crs, courseCode)
  IN IF sIdx = -1 THEN Result(studs, crs, MsgStudentNotFound)
     ELSE IF cIdx = -1 THEN Result(studs, crs, MsgCourseNotFound)
     ELSE Result([studs EXCEPT ![sIdx + 1] = StudentAddCourse(@, courseCode)],
                 [crs EXCEPT ![cIdx + 1] = CourseAddStudent(@, studentID)],
                 MsgEnrolled)

\* enrollStudentInCourse that adds the code to the student before it looks
\* at cIdx
enrollStudentInCourse_LateCourseCheck(studs, crs, studentID, courseCode) ==
  LET sIdx == findStudentIndex(studs, studentID)
      cIdx == findCourseIndex(crs, courseCode)
  IN IF sIdx = -1 THEN Result(studs, crs, MsgStudentNotFound)
     ELSE IF Contains(studs[sIdx + 1].enrolledCourses, courseCode)
          THEN Result(studs, crs, MsgAlreadyEnrolled)
     ELSE IF cIdx = -1
          THEN Result([studs EXCEPT ![sIdx + 1] = StudentAddCourse(@, courseCode)],
                      crs, MsgCourseNotFound)
          ELSE Result([studs EXCEPT ![sIdx + 1] = StudentAddCourse(@, courseCode)],
                      [crs EXCEPT ![cIdx + 1] = CourseAddStudent(@, studentID)],
                      MsgEnrolled)

\* enrollStudentInCourse that forgets courses[cIdx].addStudent(studentID)
enrollStudentInCourse_StudentSideOnly(studs, crs, studentID, courseCode) ==
  LET sIdx == findStudentIndex(studs, studentID)
      cIdx == findCourseIndex(crs, courseCode)
  IN IF sIdx = -1 THEN Result(studs, crs, MsgStudentNotFound)
     ELSE IF cIdx = -1 THEN Result(studs, crs, MsgCourseNotFound)
     ELSE IF Contains(studs[sIdx + 1].enrolledCourses, courseCode)
          THEN Result(studs, crs, MsgAlreadyEnrolled)
          ELSE Result([studs EXCEPT ![sIdx + 1] = StudentAddCourse(@, courseCode)],
                      crs, MsgEnrolled)

enrollStudentInCourse(studs, crs, studentID, courseCode) ==
  LET sIdx == findStudentIndex(studs, studentID)
      cIdx == findCourseIndex(crs, courseCode)
  IN IF sIdx = -1 THEN Result(studs, crs, MsgStudentNotFound)
     ELSE IF cIdx = -1 THEN Result(studs, crs, MsgCourseNotFound)
     ELSE IF Contains(studs[sIdx + 1].enrolledCourses, courseCode)
          THEN Result(studs, crs, MsgAlreadyEnrolled)
          ELSE Result([studs EXCEPT ![sIdx + 1] = StudentAddCourse(@, courseCode)],
                      [crs EXCEPT ![cIdx + 1] = CourseAddStudent(@, studentID)],
                      MsgEnrolled)

\* removeStudentFromCourse erasing the id from the roster of every course
removeStudentFromCourse_EveryRoster(studs, crs, studentID, courseCode) ==
  LET sIdx == findStudentIndex(studs, studentID)
      cIdx == findCourseIndex(crs, courseCode)
  IN IF sIdx = -1 \/ cIdx = -1
     THEN Result(studs, crs, MsgEitherNotFound)
     ELSE Result([studs EXCEPT ![sIdx + 1] = StudentRemoveCourse(@, courseCode)],
                 [j \in 1..Len(crs) |-> CourseRemoveStudent(crs[j], studentID)],
                 MsgUnenrolled)

removeStudentFromCourse(studs, crs, studentID, courseCode) ==
  LET sIdx == findStudentIndex(studs, studentID)
      cIdx == findCourseIndex(crs, courseCode)
  IN IF sIdx = -1 \/ cIdx = -1
     THEN Result(studs, crs, MsgEitherNotFound)
     ELSE Result([studs EXCEPT ![sIdx + 1] = StudentRemoveCourse(@, courseCode)],
                 [crs EXCEPT ![cIdx + 1] = CourseRemoveStudent(@, studentID)],
                 MsgUnenrolled)

\* ------------------------------------------------------------------------
\* Data export: the text written to Students/students.csv and
\* Courses/courses.csv
\* ------------------------------------------------------------------------
RECURSIVE JoinFrom(_, _)
\* the loop writing list[i] and, unless i is the last index, a ';'
JoinFrom(list, i) ==
  IF i > Len(list) THEN <<>>
  ELSE list[i] \o (IF i # Len(list) THEN <<";">> ELSE <<>>) \o JoinFrom(list, i + 1)

StudentLine(st) ==
  st.studentID \o <<",">> \o st.name \o <<",">> \o st.type \o <<",">>
    \o JoinFrom(st.enrolledCourses, 1) \o <<NL>>

CourseLine(co) ==
  co.courseCode \o <<",">> \o co.courseName \o <<",">>
    \o JoinFrom(co.enrolledStudentIDs, 1) \o <<NL>>

RECURSIVE StudentLinesFrom(_, _)
StudentLinesFrom(studs, i) ==
  IF i > Len(studs) THEN <<>> ELSE StudentLine(studs[i]) \o StudentLinesFrom(studs, i + 1)

RECURSIVE CourseLinesFrom(_, _)
CourseLinesFrom(crs, i) ==
  IF i > Len(crs) THEN <<>> ELSE CourseLine(crs[i]) \o CourseLinesFrom(crs, i + 1)

\* content of the students file after a successful exportStudentsToCSV
exportStudentsToCSV(studs) == StudentsHeader \o <<NL>> \o StudentLinesFrom(studs, 1)

\* content of the courses file after a successful exportCoursesToCSV
exportCoursesToCSV(crs) == CoursesHeader \o <<NL>> \o CourseLinesFrom(crs, 1)

\* ------------------------------------------------------------------------
\* Data loading
\* ------------------------------------------------------------------------
NoFile == "no file"

\* the characters std::getline(stream, field, delim) puts in field
TakeUntil(s, delim) ==
  IF \E i \in 1..Len(s) : s[i] = delim
  THEN SubSeq(s, 1, (CHOOSE i \in 1..Len(s) : s[i] = delim /\ \A j \in 1..(i-1) : s[j] # delim) - 1)
  ELSE s

\* what is left in the stream after that getline (the delimiter is consumed)
DropThrough(s, delim) ==
  IF \E i \in 1..Len(s) : s[i] = delim
  THEN SubSeq(s, (CHOOSE i \in 1..Len(s) : s[i] = delim /\ \A j \in 1..(i-1) : s[j] # delim) + 1, Len(s))
  ELSE <<>>

RECURSIVE GetLines(_, _)
\* the successive results of while (getline(stream, x, delim)): the loop ends
\* when nothing is left to extract, so a text ending in delim has no last
\* empty piece
GetLines(s, delim) ==
  IF s = <<>> THEN <<>>
  ELSE <<TakeUntil(s, delim)>> \o GetLines(DropThrough(s, delim), delim)

RECURSIVE AddCourses(_, _, _)
\* the inner loop of loadStudentsFromCSV over the ';'-separated codes
AddCourses(studs, studentID, codes) ==
  IF codes = <<>> THEN studs
  ELSE LET sIdx == findStudentIndex(studs, studentID)
           nxt == IF sIdx # -1
                  THEN [studs EXCEPT ![sIdx + 1] = StudentAddCourse(@, Head(codes))]
                  ELSE studs
       IN AddCourses(nxt, studentID, Tail(codes))

\* the body of the line loop of loadStudentsFromCSV
LoadStudentLine(studs, crs, line) ==
  IF line = <<>> THEN studs
  ELSE LET studentID == TakeUntil(line, ",")
           r1 == DropThrough(line, ",")
           name == TakeUntil(r1, ",")
           r2 == DropThrough(r1, ",")
           type == TakeUntil(r2, ",")
           coursesStr == DropThrough(r2, ",")
           added == addStudent(studs, crs, name, studentID, type).students
       IN IF coursesStr # <<>>
          THEN AddCourses(added, studentID, GetLines(coursesStr, ";"))
          ELSE added

RECURSIVE LoadStudentLines(_, _, _)
LoadStudentLines(studs, crs, lines) ==
  IF lines = <<>> THEN studs
  ELSE LoadStudentLines(LoadStudentLine(studs, crs, Head(lines)), crs, Tail(lines))

\* loadStudentsFromCSV: the students after reading the file (header skipped)
loadStudentsFromCSV(studs, crs, file) ==
  IF file = NoFile THEN studs
  ELSE LET lines == GetLines(file, NL)
       IN IF lines = <<>> THEN studs ELSE LoadStudentLines(studs, crs, Tail(lines))

RECURSIVE AddStudents(_, _, _)
\* the inner loop of loadCoursesFromCSV over the ';'-separated ids
AddStudents(crs, courseCode, ids) ==
  IF ids = <<>> THEN crs
  ELSE LET cIdx == findCourseIndex(crs, courseCode)
           nxt == IF cIdx # -1
                  THEN [crs EXCEPT ![cIdx + 1] = CourseAddStudent(@, Head(ids))]
                  ELSE crs
       IN AddStudents(nxt, courseCode, Tail(ids))

\* the body of the line loop of loadCoursesFromCSV
LoadCourseLine(studs, crs, line) ==
  IF line = <<>> THEN crs
  ELSE LET courseCode == TakeUntil(line, ",")
           r1 == DropThrough(line, ",")
           courseName == TakeUntil(r1, ",")
           studentsStr == DropThrough(r1, ",")
           added == addCourse(studs, crs, courseName, courseCode).courses
       IN IF studentsStr # <<>>
          THEN AddStudents(added, courseCode, GetLines(studentsStr, ";"))
          ELSE added

RECURSIVE LoadCourseLines(_, _, _)
LoadCourseLines(studs, crs, lines) ==
  IF lines = <<>> THEN crs
  ELSE LoadCourseLines(studs, LoadCourseLine(studs, crs, Head(lines)), Tail(lines))

\* loadCoursesFromCSV: the courses after reading the file (header skipped)
loadCoursesFromCSV(studs, crs, file) ==
  IF file = NoFile THEN crs
  ELSE LET lines == GetLines(file, NL)
       IN IF lines = <<>> THEN crs ELSE LoadCourseLines(studs, crs, Tail(lines))

\* loadData: both loads, students first
loadData(studs, crs, sFile, cFile) ==
  LET s1 == loadStudentsFromCSV(studs, crs, sFile)
  IN [students |-> s1, courses |-> loadCoursesFromCSV(s1, crs, cFile)]

MsgStudentsExported == "Students exported to"
MsgStudentsOpenError == "Error opening file for exporting students."
MsgCoursesExported == "Courses exported to"
MsgCoursesOpenError == "Error opening file for exporting courses."

\* a file opened for appending and written: the text comes after the old
\* content
WriteFile_Append(old, text) == IF old = NoFile THEN text ELSE old \o text

\* a file opened by ofstream file(filename) and written: the old content is
\* gone
WriteFile(old, text) == text

\* ---------------------------------------------------------------------
\* Listing, search and reports
\* ---------------------------------------------------------------------

MsgNoMatch == "No matching student found."
MsgReportOpenError == "Error opening file for report."
MsgCourseReportSaved == "Course report saved to"
MsgStudentReportSaved == "Student report saved to"

ReportStudentHeader == <<"S","t","u","d","e","n","t","I","D",",","N","a","m","e",",","T","y","p","e">>
ReportCourseHeader == <<"C","o","u","r","s","e","C","o","d","e",",","C","o","u","r","s","e","N","a","m","e">>

\* what a listing, a search or a report leaves: the registry, the message,
\* the data rows printed on the terminal and the text written to the file
Outcome(studs, crs, m, rows, file) ==
  [students |-> studs, courses |-> crs, msg |-> m, rows |-> rows, file |-> file]

RECURSIVE Concat(_)
\* the rows one after the other, each ended by a newline
Concat(rows) ==
  IF rows = <<>> THEN <<>> ELSE Head(rows) \o <<NL>> \o Concat(Tail(rows))

\* std::string::find: the first position of keyword in text, -1 for npos
strFind(text, keyword) ==
  LET at == { i \in 0..(Len(text) - Len(keyword)) : SubSeq(text, i + 1, i + Len(keyword)) = keyword }
  IN IF at = {} THEN -1 ELSE CHOOSE i \in at : \A k \in at : i <= k

\* the line listStudents and searchStudent print for a student
StudentRow(st) == [name |-> st.name, studentID |-> st.studentID, type |-> st.type]

\* the line listCourses prints for a course
CourseRow(co) == [courseName |-> co.courseName, courseCode |-> co.courseCode]

listStudents(studs, crs) ==
  Outcome(studs, crs, MsgNone, [i \in 1..Len(studs) |-> StudentRow(studs[i])], NoFile)

listCourses(studs, crs) ==
  Outcome(studs, crs, MsgNone, [j \in 1..Len(crs) |-> CourseRow(crs[j])], NoFile)

\* the loop body searching the courses whether or not the name or the id
\* matched
SearchOne_NoElse(st, keyword) ==
  (IF strFind(st.name, keyword) # -1 \/ strFind(st.studentID, keyword) # -1
   THEN <<StudentRow(st)>> ELSE <<>>)
  \o (IF \E k \in 1..Len(st.enrolledCourses) : strFind(st.enrolledCourses[k], keyword) # -1
      THEN <<StudentRow(st)>> ELSE <<>>)

\* the body of the loop of searchStudent for one student: the lines printed
SearchOne(st, keyword) ==
  IF strFind(st.name, keyword) # -1 \/ strFind(st.studentID, keyword) # -1
  THEN <<StudentRow(st)>>
  ELSE IF \E k \in 1..Len(st.enrolledCourses) : strFind(st.enrolledCourses[k], keyword) # -1
       THEN <<StudentRow(st)>>
       ELSE <<>>

RECURSIVE SearchFrom(_, _, _)
SearchFrom(studs, keyword, i) ==
  IF i > Len(studs) THEN <<>>
  ELSE SearchOne(studs[i], keyword) \o SearchFrom(studs, keyword, i + 1)

searchStudent(studs, crs, keyword) ==
  LET rows == SearchFrom(studs, keyword, 1)
  IN Outcome(studs, crs, IF rows = <<>> THEN MsgNoMatch ELSE MsgNone, rows, NoFile)

RECURSIVE CourseReportRows(_, _)
\* the loop of generateReportForCourse over the roster
CourseReportRows(studs, ids) ==
  IF ids = <<>> THEN <<>>
  ELSE LET sIdx == findStudentIndex(studs, Head(ids))
           row == IF sIdx # -1
                  THEN <<studs[sIdx + 1].studentID \o <<",">> \o studs[sIdx + 1].name
                           \o <<",">> \o studs[sIdx + 1].type>>
                  ELSE <<>>
       IN row \o CourseReportRows(studs, Tail(ids))

\* generateReportForCourse erasing from the roster the ids it finds no
\* student for
generateReportForCourse_DropsUnknown(studs, crs, courseCode, ok) ==
  LET cIdx == findCourseIndex(crs, courseCode)
  IN IF cIdx = -1 THEN Outcome(studs, crs, MsgCourseNotFound, <<>>, NoFile)
     ELSE IF ~ok THEN Outcome(studs, crs, MsgReportOpenError, <<>>, NoFile)
     ELSE LET rows == CourseReportRows(studs, crs[cIdx + 1].enrolledStudentIDs)
              known == SelectSeq(crs[cIdx + 1].enrolledStudentIDs,
                                 LAMBDA id : findStudentIndex(studs, id) # -1)
          IN Outcome(studs, [crs EXCEPT ![cIdx + 1].enrolledStudentIDs = known],
                     MsgCourseReportSaved, rows,
                     ReportStudentHeader \o <<NL>> \o Concat(rows))

\* generateReportForCourse; ok says whether the report file opens
generateReportForCourse(studs, crs, courseCode, ok) ==
  LET cIdx == findCourseIndex(crs, courseCode)
  IN IF cIdx = -1 THEN Outcome(studs, crs, MsgCourseNotFound, <<>>, NoFile)
     ELSE IF ~ok THEN Outcome(studs, crs, MsgReportOpenError, <<>>, NoFile)
     ELSE LET rows == CourseReportRows(studs, crs[cIdx + 1].enrolledStudentIDs)
          IN Outcome(studs, crs, MsgCourseReportSaved, rows,
                     ReportStudentHeader \o <<NL>> \o Concat(rows))

RECURSIVE StudentReportRows(_, _)
\* the loop of generateReportForStudent over the enrolled-course list
StudentReportRows(crs, codes) ==
  IF codes = <<>> THEN <<>>
  ELSE LET cIdx == findCourseIndex(crs, Head(codes))
           row == IF cIdx # -1
                  THEN <<crs[cIdx + 1].courseCode \o <<",">> \o crs[cIdx + 1].courseName>>
                  ELSE <<>>
       IN row \o StudentReportRows(crs, Tail(codes))

\* generateReportForStudent; ok says whether the report file opens
generateReportForStudent(studs, crs, studentID, ok) ==
  LET sIdx == findStudentIndex(studs, studentID)
  IN IF sIdx = -1 THEN Outcome(studs, crs, MsgStudentNotFound, <<>>, NoFile)
     ELSE IF ~ok THEN Outcome(studs, crs, MsgReportOpenError, <<>>, NoFile)
     ELSE LET st == studs[sIdx + 1]
              rows == StudentReportRows(crs, st.enrolledCourses)
          IN Outcome(studs, crs, MsgStudentReportSaved, rows,
                     ReportStudentHeader \o <<NL>>
                       \o st.studentID \o <<",">> \o st.name \o <<",">> \o st.type \o <<NL, NL>>
                       \o ReportCourseHeader \o <<NL>> \o Concat(rows))

\* ------------------------------------------------------------------------
\* Lines typed at the prompts of the menu
\* ------------------------------------------------------------------------
S001 == <<"S","0","0","1">>

S002 == <<"S","0","0","2">>

\* typed at "Enter student name: "
NameInputs == { <<" ","A","l">>, <<"B",",","o">> }

\* typed at "Enter student ID (format Sxxx, e.g., S001): "
StudentIDInputs == { S001, S002, <<"S","1">> }

\* typed at "Enter student type (Undergraduate/Postgraduate): "
TypeInputs == { UNDERGRADUATE, POSTGRADUATE, <<"U","G">> }

\* typed at "Enter course name: "
CourseNameInputs == { <<"D","S"," ">> }

\* typed at "Enter course code: "
CourseCodeInputs == { <<"C","1">>, <<"C","1",";","C","1">>, <<"C","1",",","X">> }

\* typed at the prompts that ask for the id of an existing student
StudentKeyInputs == { S001, S002, <<"S","1">> }

\* typed at the prompts that ask for the code of an existing course
CourseKeyInputs == CourseCodeInputs

\* spellings of ESC typed at a prompt
EscInputs == { <<"E","S","C">>, <<" ","e","s","c">> }

\* keywords typed at the search prompt: part of a name, of an id and of a
\* course code, and a lower-case spelling that matches nothing
KeywordInputs == { <<"o">>, <<"1">>, <<"s","0">> }

\* ------------------------------------------------------------------------
\* State
\* ------------------------------------------------------------------------
VARIABLES
  students,      \* StudentManagement::students
  courses,       \* StudentManagement::courses
  studentsFile,  \* content of Students/students.csv, or NoFile
  coursesFile,   \* content of Courses/courses.csv, or NoFile
  pc,            \* "start": sms constructed; "menu": in the do-while loop; "exited"
  cmds,          \* menu choices made so far (over all runs of the program)
  last,          \* the last call: its name, its key arguments, the message printed
  prev,          \* the two collections as they were before the last call
  out,           \* what the last search, list or report printed and wrote
  pending        \* the menu choice being prompted for and the lines typed so far

vars == <<students, courses, studentsFile, coursesFile, pc, cmds, last, prev, out, pending>>

\* nothing printed or written by a search, a list or a report
NoOut == [arg |-> <<>>, rows |-> <<>>, file |-> NoFile]

\* no menu choice is waiting for input
NoPending == [choice |-> 0, lines |-> <<>>]

Call(op, studentID, courseCode, msg) ==
  [op |-> op, studentID |-> studentID, courseCode |-> courseCode, msg |-> msg]

Registry(s, c) == [students |-> s, courses |-> c]

Init ==
  /\ students = <<>>
  /\ courses = <<>>
  /\ studentsFile = NoFile
  /\ coursesFile = NoFile
  /\ pc = "start"
  /\ cmds = 0
  /\ last = Call("main", <<>>, <<>>, MsgNone)
  /\ prev = Registry(<<>>, <<>>)
  /\ out = NoOut
  /\ pending = NoPending

\* the effect of one registry call on the state
Apply(op, studentID, courseCode, res) ==
  /\ Len(res.students) <= MaxStudents
  /\ Len(res.courses) <= MaxCourses
  /\ students' = res.students
  /\ courses' = res.courses
  /\ last' = Call(op, studentID, courseCode, res.msg)
  /\ prev' = Registry(students, courses)
  /\ out' = NoOut
  /\ UNCHANGED pending

\* main: sms.loadData() before the menu loop
LoadData ==
  /\ pc = "start"
  /\ LET r == loadData(students, courses, studentsFile, coursesFile)
     IN Apply("loadData", <<>>, <<>>, Result(r.students, r.courses, MsgNone))
  /\ pc' = "menu"
  /\ UNCHANGED <<studentsFile, coursesFile, cmds>>

\* case 1
MenuAddStudent ==
  /\ pc = "menu"
  /\ \E rawName \in NameInputs, studentID \in StudentIDInputs, type \in TypeInputs :
       \E name \in {trim(rawName)} :
         /\ getNonEmptyInput(rawName, name)
         /\ getNonEmptyInput(studentID, studentID) /\ isValidStudentID(studentID)
         /\ getNonEmptyInput(type, type) /\ getValidStudentType(type)
         /\ Apply("addStudent", studentID, <<>>, addStudent(students, courses, name, studentID, type))
  /\ UNCHANGED <<studentsFile, coursesFile, pc>>

\* case 2
MenuRemoveStudent ==
  /\ pc = "menu"
  /\ \E studentID \in StudentKeyInputs :
       /\ getNonEmptyInput(studentID, studentID)
       /\ Apply("removeStudent", studentID, <<>>, removeStudent(students, courses, studentID))
  /\ UNCHANGED <<studentsFile, coursesFile, pc>>

\* case 5
MenuAddCourse ==
  /\ pc = "menu"
  /\ \E courseName \in CourseNameInputs, courseCode \in CourseCodeInputs :
       \E trimmed \in {trim(courseName)} :
         /\ getNonEmptyInput(courseName, trimmed)
         /\ getNonEmptyInput(courseCode, courseCode)
         /\ Apply("addCourse", <<>>, courseCode, addCourse(students, courses, trimmed, courseCode))
  /\ UNCHANGED <<studentsFile, coursesFile, pc>>

\* case 6
MenuRemoveCourse ==
  /\ pc = "menu"
  /\ \E courseCode \in CourseKeyInputs :
       /\ getNonEmptyInput(courseCode, courseCode)
       /\ Apply("removeCourse", <<>>, courseCode, removeCourse(students, courses, courseCode))
  /\ UNCHANGED <<studentsFile, coursesFile, pc>>

\* case 8
MenuEnroll ==
  /\ pc = "menu"
  /\ \E studentID \in StudentKeyInputs, courseCode \in CourseKeyInputs :
       /\ getNonEmptyInput(studentID, studentID)
       /\ getNonEmptyInput(courseCode, courseCode)
       /\ Apply("enrollStudentInCourse", studentID, courseCode,
                enrollStudentInCourse(students, courses, studentID, courseCode))
  /\ UNCHANGED <<studentsFile, coursesFile, pc>>

\* case 9
MenuUnenroll ==
  /\ pc = "menu"
  /\ \E studentID \in StudentKeyInputs, courseCode \in CourseKeyInputs :
       /\ getNonEmptyInput(studentID, studentID)
       /\ getNonEmptyInput(courseCode, courseCode)
       /\ Apply("removeStudentFromCourse", studentID, courseCode,
                removeStudentFromCourse(students, courses, studentID, courseCode))
  /\ UNCHANGED <<studentsFile, coursesFile, pc>>

\* the effect of a listing, a search or a report on the state
Query(op, studentID, courseCode, arg, res) ==
  /\ students' = res.students
  /\ courses' = res.courses
  /\ last' = Call(op, studentID, courseCode, res.msg)
  /\ prev' = Registry(students, courses)
  /\ out' = [arg |-> arg, rows |-> res.rows, file |-> res.file]
  /\ UNCHANGED <<studentsFile, coursesFile, pc, pending>>

\* case 3
MenuListStudents ==
  /\ pc = "menu"
  /\ Query("listStudents", <<>>, <<>>, <<>>, listStudents(students, courses))

\* case 4
MenuSearch ==
  /\ pc = "menu"
  /\ \E raw \in KeywordInputs : \E keyword \in {trim(raw)} :
       /\ getNonEmptyInput(raw, keyword)
       /\ Query("searchStudent", <<>>, <<>>, keyword, searchStudent(students, courses, keyword))

\* case 7
MenuListCourses ==
  /\ pc = "menu"
  /\ Query("listCourses", <<>>, <<>>, <<>>, listCourses(students, courses))

\* case 10; ok says whether the report file opens
CourseReport(ok) ==
  /\ pc = "menu"
  /\ \E raw \in CourseKeyInputs : \E courseCode \in {trim(raw)} :
       /\ getNonEmptyInput(raw, courseCode)
       /\ Query("generateReportForCourse", <<>>, courseCode, courseCode,
                generateReportForCourse(students, courses, courseCode, ok))

\* case 11; ok says whether the report file opens
StudentReport(ok) ==
  /\ pc = "menu"
  /\ \E raw \in StudentKeyInputs : \E studentID \in {trim(raw)} :
       /\ getNonEmptyInput(raw, studentID)
       /\ Query("generateReportForStudent", studentID, <<>>, studentID,
                generateReportForStudent(students, courses, studentID, ok))

MenuCourseReport == CourseReport(TRUE)

MenuStudentReport == StudentReport(TRUE)

MenuCourseReportIO == \E ok \in BOOLEAN : CourseReport(ok)

MenuStudentReportIO == \E ok \in BOOLEAN : StudentReport(ok)

\* exportStudentsToCSV then exportCoursesToCSV; okS / okC: the ofstream opened
ExportBoth(op, okS, okC) ==
  /\ studentsFile' = IF okS THEN WriteFile(studentsFile, exportStudentsToCSV(students))
                     ELSE studentsFile
  /\ coursesFile' = IF okC THEN WriteFile(coursesFile, exportCoursesToCSV(courses))
                    ELSE coursesFile
  /\ last' = Call(op, <<>>, <<>>, MsgNone)
  /\ prev' = Registry(students, courses)
  /\ out' = [arg |-> <<>>, file |-> NoFile,
             rows |-> << IF okS THEN MsgStudentsExported ELSE MsgStudentsOpenError,
                         IF okC THEN MsgCoursesExported ELSE MsgCoursesOpenError >>]
  /\ UNCHANGED <<students, courses, pending>>

\* case 12
MenuExport ==
  /\ pc = "menu"
  /\ ExportBoth("export", TRUE, TRUE)
  /\ UNCHANGED pc

\* case 12, when an ofstream may fail to open
MenuExportIO ==
  /\ pc = "menu"
  /\ \E okS \in BOOLEAN, okC \in BOOLEAN : ExportBoth("export", okS, okC)
  /\ UNCHANGED pc

\* case 0 leaving the loop without the two exports
MenuExit_WithoutExport ==
  /\ pc = "menu"
  /\ last' = Call("exit", <<>>, <<>>, MsgNone)
  /\ prev' = Registry(students, courses)
  /\ out' = NoOut
  /\ pc' = "exited"
  /\ UNCHANGED <<students, courses, studentsFile, coursesFile, cmds, pending>>

\* case 0
MenuExit ==
  /\ pc = "menu"
  /\ ExportBoth("exit", TRUE, TRUE)
  /\ pc' = "exited"
  /\ UNCHANGED cmds

\* case 0, when an ofstream may fail to open
MenuExitIO ==
  /\ pc = "menu"
  /\ \E okS \in BOOLEAN, okC \in BOOLEAN : ExportBoth("exit", okS, okC)
  /\ pc' = "exited"
  /\ UNCHANGED cmds

\* the program is started again: StudentManagement sms; in a new process
Restart ==
  /\ pc = "exited"
  /\ pc' = "start"
  /\ students' = <<>>
  /\ courses' = <<>>
  /\ last' = Call("main", <<>>, <<>>, MsgNone)
  /\ prev' = Registry(<<>>, <<>>)
  /\ out' = NoOut
  /\ UNCHANGED <<studentsFile, coursesFile, cmds, pending>>

\* ---------------------------------------------------------------------
\* The menu cases prompt by prompt
\* ---------------------------------------------------------------------

MsgCancelled == "Operation cancelled by user."

\* the cases of the switch that prompt before they call the registry
PromptedChoices == {1, 2, 4, 5, 6, 8, 9, 10, 11}

\* how many prompts a case has
Prompts(choice) ==
  IF choice = 1 THEN 3 ELSE IF choice \in {5, 8, 9} THEN 2 ELSE 1

\* the lines typed at the k-th prompt of a case
PromptInputs(choice, k) ==
  EscInputs \cup
    CASE choice = 1 /\ k = 1 -> NameInputs
      [] choice = 1 /\ k = 2 -> StudentIDInputs
      [] choice = 1 /\ k = 3 -> TypeInputs
      [] choice \in {2, 11} -> StudentKeyInputs
      [] choice = 4 -> KeywordInputs
      [] choice = 5 /\ k = 1 -> CourseNameInputs
      [] choice = 5 /\ k = 2 -> CourseCodeInputs
      [] choice \in {6, 10} -> CourseKeyInputs
      [] choice \in {8, 9} /\ k = 1 -> StudentKeyInputs
      [] choice \in {8, 9} /\ k = 2 -> CourseKeyInputs
      [] OTHER -> {}

\* the k-th prompt of a case returns the trimmed line t: getValidStudentID
\* and getValidStudentType prompt again until the line is valid
Returns(choice, k, t) ==
  /\ t # <<>>
  /\ (choice = 1 /\ k = 2) => isValidStudentID(t)
  /\ (choice = 1 /\ k = 3) => getValidStudentType(t)

\* a Result as an Outcome that printed no rows and wrote no file
Plain(res) == Outcome(res.students, res.courses, res.msg, <<>>, NoFile)

\* the registry call of a case with the values its prompts returned
Dispatch(choice, v, studs, crs) ==
  CASE choice = 1 -> [op |-> "addStudent", studentID |-> v[2], courseCode |-> <<>>, arg |-> <<>>,
                      res |-> Plain(addStudent(studs, crs, v[1], v[2], v[3]))]
    [] choice = 2 -> [op |-> "removeStudent", studentID |-> v[1], courseCode |-> <<>>, arg |-> <<>>,
                      res |-> Plain(removeStudent(studs, crs, v[1]))]
    [] choice = 4 -> [op |-> "searchStudent", studentID |-> <<>>, courseCode |-> <<>>, arg |-> v[1],
                      res |-> searchStudent(studs, crs, v[1])]
    [] choice = 5 -> [op |-> "addCourse", studentID |-> <<>>, courseCode |-> v[2], arg |-> <<>>,
                      res |-> Plain(addCourse(studs, crs, v[1], v[2]))]
    [] choice = 6 -> [op |-> "removeCourse", studentID |-> <<>>, courseCode |-> v[1], arg |-> <<>>,
                      res |-> Plain(removeCourse(studs, crs, v[1]))]
    [] choice = 8 -> [op |-> "enrollStudentInCourse", studentID |-> v[1], courseCode |-> v[2],
                      arg |-> <<>>, res |-> Plain(enrollStudentInCourse(studs, crs, v[1], v[2]))]
    [] choice = 9 -> [op |-> "removeStudentFromCourse", studentID |-> v[1], courseCode |-> v[2],
                      arg |-> <<>>, res |-> Plain(removeStudentFromCourse(studs, crs, v[1], v[2]))]
    [] choice = 10 -> [op |-> "generateReportForCourse", studentID |-> <<>>, courseCode |-> v[1],
                       arg |-> v[1], res |-> generateReportForCourse(studs, crs, v[1], TRUE)]
    [] choice = 11 -> [op |-> "generateReportForStudent", studentID |-> v[1], courseCode |-> <<>>,
                       arg |-> v[1], res |-> generateReportForStudent(studs, crs, v[1], TRUE)]

\* a case that prompts is chosen at the menu
Choose(choice) ==
  /\ pc = "menu"
  /\ choice \in PromptedChoices
  /\ pc' = "prompt"
  /\ pending' = [choice |-> choice, lines |-> <<>>]
  /\ UNCHANGED <<students, courses, studentsFile, coursesFile, last, prev, out>>

\* the exception thrown at a prompt is caught at the end of the loop body
Cancel ==
  /\ pc' = "menu"
  /\ pending' = NoPending
  /\ last' = Call("cancelled", <<>>, <<>>, MsgCancelled)
  /\ prev' = Registry(students, courses)
  /\ out' = NoOut
  /\ UNCHANGED <<students, courses, studentsFile, coursesFile, cmds>>

\* the last prompt of the case has returned: the registry is called
Complete(choice, v) ==
  LET d == Dispatch(choice, v, students, courses)
  IN /\ Len(d.res.students) <= MaxStudents
     /\ Len(d.res.courses) <= MaxCourses
     /\ students' = d.res.students
     /\ courses' = d.res.courses
     /\ last' = Call(d.op, d.studentID, d.courseCode, d.res.msg)
     /\ prev' = Registry(students, courses)
     /\ out' = [arg |-> d.arg, rows |-> d.res.rows, file |-> d.res.file]
     /\ pc' = "menu"
     /\ pending' = NoPending
     /\ UNCHANGED <<studentsFile, coursesFile, cmds>>

\* a line is typed at the current prompt of the case
TypeLine(raw) ==
  /\ pc = "prompt"
  /\ raw \in PromptInputs(pending.choice, Len(pending.lines) + 1)
  /\ IF Cancels(raw) THEN Cancel
     ELSE LET v == Append(pending.lines, trim(raw))
          IN /\ Returns(pending.choice, Len(v), trim(raw))
             /\ IF Len(v) < Prompts(pending.choice)
                THEN /\ pending' = [pending EXCEPT !.lines = v]
                     /\ UNCHANGED <<students, courses, studentsFile, coursesFile,
                                    pc, cmds, last, prev, out>>
                ELSE Complete(pending.choice, v)

\* every line the model types
TypedInputs ==
  EscInputs \cup NameInputs \cup StudentIDInputs \cup TypeInputs \cup CourseNameInputs
    \cup CourseCodeInputs \cup StudentKeyInputs \cup CourseKeyInputs \cup KeywordInputs

\* one more menu choice, while the bound allows it
Counted == cmds < MaxCmds /\ cmds' = cmds + 1

\* The program: runs one after the other, the files kept between the runs
Next ==
  \/ LoadData
  \/ (Counted /\ MenuAddStudent)
  \/ (Counted /\ MenuRemoveStudent)
  \/ (Counted /\ MenuAddCourse)
  \/ (Counted /\ MenuRemoveCourse)
  \/ (Counted /\ MenuEnroll)
  \/ (Counted /\ MenuUnenroll)
  \/ (Counted /\ MenuExport)
  \/ MenuExit
  \/ Restart

Spec == Init /\ [][Next]_vars

\* one more command of a run in which every menu choice may be taken, at most
\* MaxMenuCmds in all
CountedMenu == cmds < MaxMenuCmds /\ cmds' = cmds + 1

\* The program when the files may fail to open for writing
NextIO ==
  \/ LoadData
  \/ (CountedMenu /\ MenuAddStudent)
  \/ (CountedMenu /\ MenuRemoveStudent)
  \/ (CountedMenu /\ MenuAddCourse)
  \/ (CountedMenu /\ MenuRemoveCourse)
  \/ (CountedMenu /\ MenuEnroll)
  \/ (CountedMenu /\ MenuUnenroll)
  \/ (CountedMenu /\ MenuCourseReportIO)
  \/ (CountedMenu /\ MenuStudentReportIO)
  \/ (CountedMenu /\ MenuExportIO)
  \/ MenuExitIO
  \/ Restart

SpecIO == Init /\ [][NextIO]_vars

\* one more registry call, while the bound allows it
CountedOps == cmds < MaxOps /\ cmds' = cmds + 1

\* The six registry operations from the empty registry of a first run
NextOps ==
  \/ LoadData
  \/ (CountedOps /\ MenuAddStudent)
  \/ (CountedOps /\ MenuRemoveStudent)
  \/ (CountedOps /\ MenuAddCourse)
  \/ (CountedOps /\ MenuRemoveCourse)
  \/ (CountedOps /\ MenuEnroll)
  \/ (CountedOps /\ MenuUnenroll)

SpecOps == Init /\ [][NextOps]_vars

\* the whole menu: the registry calls, the listings, the search, the
\* reports, the export and the exit, every file opening
NextMenu ==
  \/ LoadData
  \/ CountedMenu /\ MenuAddStudent
  \/ CountedMenu /\ MenuRemoveStudent
  \/ CountedMenu /\ MenuListStudents
  \/ CountedMenu /\ MenuSearch
  \/ CountedMenu /\ MenuAddCourse
  \/ CountedMenu /\ MenuRemoveCourse
  \/ CountedMenu /\ MenuListCourses
  \/ CountedMenu /\ MenuEnroll
  \/ CountedMenu /\ MenuUnenroll
  \/ CountedMenu /\ MenuCourseReport
  \/ CountedMenu /\ MenuStudentReport
  \/ CountedMenu /\ MenuExport
  \/ MenuExit
  \/ Restart

SpecMenu == Init /\ [][NextMenu]_vars

\* the registry calls and the student report on a registry that starts empty
NextReport ==
  \/ NextOps
  \/ CountedOps /\ MenuStudentReport

SpecReport == Init /\ [][NextReport]_vars

\* the registry calls and the search on a registry that starts empty
NextSearch ==
  \/ LoadData
  \/ Counted /\ MenuAddStudent
  \/ Counted /\ MenuRemoveStudent
  \/ Counted /\ MenuSearch
  \/ Counted /\ MenuAddCourse
  \/ Counted /\ MenuRemoveCourse
  \/ Counted /\ MenuEnroll
  \/ Counted /\ MenuUnenroll

SpecSearch == Init /\ [][NextSearch]_vars

\* the whole menu, the cases that prompt taken one prompt at a time
NextPrompt ==
  \/ LoadData
  \/ \E choice \in PromptedChoices : CountedMenu /\ Choose(choice)
  \/ \E raw \in TypedInputs : TypeLine(raw)
  \/ CountedMenu /\ MenuListStudents
  \/ CountedMenu /\ MenuListCourses
  \/ CountedMenu /\ MenuExport
  \/ MenuExit
  \/ Restart

SpecPrompt == Init /\ [][NextPrompt]_vars

\* ------------------------------------------------------------------------
\* Properties
\* ------------------------------------------------------------------------
StudentIds(studs) == {studs[i].studentID : i \in 1..Len(studs)}

CourseCodes(crs) == {crs[j].courseCode : j \in 1..Len(crs)}

\* the course code is in the student's enrolled-course list
InList(st, co) == Contains(st.enrolledCourses, co.courseCode)

\* the student id is in the course's roster
InRoster(st, co) == Contains(co.enrolledStudentIDs, st.studentID)

\* C1: from the empty registry, after any sequence of addStudent, addCourse,
\* removeStudent, removeCourse, enrollStudentInCourse and
\* removeStudentFromCourse calls, for every student s and course c of the
\* registry, c's code is in s's list iff s's id is in c's roster.
C1_ReferentialSymmetry ==
  \A i \in 1..Len(students), j \in 1..Len(courses) :
    InList(students[i], courses[j]) <=> InRoster(students[i], courses[j])

\* a student was removed while another student is still enrolled in a course
C1_Witness ==
  /\ last.op = "removeStudent"
  /\ last.msg = MsgStudentRemoved
  /\ \E i \in 1..Len(students), j \in 1..Len(courses) :
       InList(students[i], courses[j]) /\ InRoster(students[i], courses[j])

\* C2: addStudent with an id that is already the id of a student reports a
\* duplicate and leaves the student collection as it was: same students, same
\* order, same name, kind and enrolled-course list.
C2_DuplicateStudentRejected ==
  (last.op = "addStudent" /\ findStudentIndex(prev.students, last.studentID) # -1)
    => (last.msg = MsgStudentExists /\ students = prev.students)

\* a duplicate was rejected while the registry held two students and a
\* students file was on disk
C2_Witness ==
  /\ last.op = "addStudent"
  /\ last.msg = MsgStudentExists
  /\ studentsFile # NoFile
  /\ Len(students) = 2

\* C3: removeStudent(id) of a present student leaves no student with that id
\* and the id in no roster; removeCourse(code) of a present course leaves no
\* course with that code and the code in no enrolled-course list; with an
\* absent key either call leaves the registry unchanged.
C3_RemoveCascades ==
  /\ last.op = "removeStudent" =>
       IF findStudentIndex(prev.students, last.studentID) # -1
       THEN /\ findStudentIndex(students, last.studentID) = -1
            /\ \A j \in 1..Len(courses) :
                 ~Contains(courses[j].enrolledStudentIDs, last.studentID)
       ELSE students = prev.students /\ courses = prev.courses
  /\ last.op = "removeCourse" =>
       IF findCourseIndex(prev.courses, last.courseCode) # -1
       THEN /\ findCourseIndex(courses, last.courseCode) = -1
            /\ \A i \in 1..Len(students) :
                 ~Contains(students[i].enrolledCourses, last.courseCode)
       ELSE students = prev.students /\ courses = prev.courses

\* the removed student was on the rosters of two courses
C3_Witness ==
  /\ last.op = "removeStudent"
  /\ last.msg = MsgStudentRemoved
  /\ Cardinality({j \in 1..Len(prev.courses) :
                    Contains(prev.courses[j].enrolledStudentIDs, last.studentID)}) = 2
  /\ Len(courses) = 2

\* C4: in every reachable state, the state right after loadData of the
\* files left by the program's own exports included, every code in a
\* student's enrolled-course list is the code of a course of the registry
\* and every id in a roster is the id of a student of the registry.
C4_NoDanglingReference ==
  /\ \A i \in 1..Len(students) : \A k \in 1..Len(students[i].enrolledCourses) :
       students[i].enrolledCourses[k] \in CourseCodes(courses)
  /\ \A j \in 1..Len(courses) : \A k \in 1..Len(courses[j].enrolledStudentIDs) :
       courses[j].enrolledStudentIDs[k] \in StudentIds(students)

\* the registry a fresh process loads from the files an export of the
\* current registry writes
Reloaded ==
  loadData(<<>>, <<>>, exportStudentsToCSV(students), exportCoursesToCSV(courses))

\* the (student id, course code) pairs of the enrolled-course lists
ListPairs(studs) ==
  UNION { { <<studs[i].studentID, studs[i].enrolledCourses[k]>> :
              k \in 1..Len(studs[i].enrolledCourses) } : i \in 1..Len(studs) }

\* the (student id, course code) pairs of the rosters
RosterPairs(crs) ==
  UNION { { <<crs[j].enrolledStudentIDs[k], crs[j].courseCode>> :
              k \in 1..Len(crs[j].enrolledStudentIDs) } : j \in 1..Len(crs) }

\* the (id, name, kind) of every student
StudentFields(studs) ==
  { <<studs[i].studentID, studs[i].name, studs[i].type>> : i \in 1..Len(studs) }

\* the (code, name) of every course
CourseFields(crs) ==
  { <<crs[j].courseCode, crs[j].courseName>> : j \in 1..Len(crs) }

\* C5: for every registry R reachable by the registry operations, export
\* followed by a load into an empty registry gives the same student ids, the
\* same course codes, the same enrollment pairs on both sides, the same name
\* and kind for every student and the same name for every course.
C5_RoundTrip ==
  /\ StudentIds(Reloaded.students) = StudentIds(students)
  /\ CourseCodes(Reloaded.courses) = CourseCodes(courses)
  /\ ListPairs(Reloaded.students) = ListPairs(students)
  /\ RosterPairs(Reloaded.courses) = RosterPairs(courses)
  /\ StudentFields(Reloaded.students) = StudentFields(students)
  /\ CourseFields(Reloaded.courses) = CourseFields(courses)

\* C6: for every reachable registry R, save, load into a fresh registry and
\* save again writes the same two files, character for character, as the
\* first save.
C6_SaveLoadSave ==
  /\ exportStudentsToCSV(Reloaded.students) = exportStudentsToCSV(students)
  /\ exportCoursesToCSV(Reloaded.courses) = exportCoursesToCSV(courses)

\* no element occurs twice in the vector
NoRepeat(v) == \A a, b \in 1..Len(v) : v[a] = v[b] => a = b

\* C7: enrollStudentInCourse(s, c) for a student s and a course c of the
\* registry, c already in s's enrolled-course list, reports "already
\* enrolled" and leaves the registry unchanged; and in every reachable state
\* no enrolled-course list and no roster holds a key twice.
C7_AlreadyEnrolledAndNoRepeat ==
  /\ (/\ last.op = "enrollStudentInCourse"
      /\ findStudentIndex(prev.students, last.studentID) # -1
      /\ findCourseIndex(prev.courses, last.courseCode) # -1
      /\ Contains(prev.students[findStudentIndex(prev.students, last.studentID) + 1].enrolledCourses,
                  last.courseCode))
     => (/\ last.msg = MsgAlreadyEnrolled
         /\ students = prev.students
         /\ courses = prev.courses)
  /\ \A i \in 1..Len(students) : NoRepeat(students[i].enrolledCourses)
  /\ \A j \in 1..Len(courses) : NoRepeat(courses[j].enrolledStudentIDs)

\* a second enroll of the same pair was reported, the roster holding the id
C7_Witness ==
  /\ last.op = "enrollStudentInCourse"
  /\ last.msg = MsgAlreadyEnrolled
  /\ \E j \in 1..Len(courses) :
       /\ courses[j].courseCode = last.courseCode
       /\ courses[j].enrolledStudentIDs = <<last.studentID>>

\* C8: in every reachable state, the state after loadData included, no two
\* students have the same id and no two courses have the same code.
C8_UniqueKeys ==
  /\ \A a, b \in 1..Len(students) : students[a].studentID = students[b].studentID => a = b
  /\ \A a, b \in 1..Len(courses) : courses[a].courseCode = courses[b].courseCode => a = b

\* a run has loaded two students and a course from the files
C8_Witness ==
  /\ last.op = "loadData"
  /\ studentsFile # NoFile
  /\ Len(students) = 2
  /\ Len(courses) >= 1

\* C9: enrollStudentInCourse(s, c) with s not the id of a student or c not
\* the code of a course reports "not found" and leaves the whole registry
\* unchanged.
C9_EnrollNotFound ==
  (/\ last.op = "enrollStudentInCourse"
   /\ \/ findStudentIndex(prev.students, last.studentID) = -1
      \/ findCourseIndex(prev.courses, last.courseCode) = -1)
  => (/\ last.msg \in {MsgStudentNotFound, MsgCourseNotFound}
      /\ students = prev.students
      /\ courses = prev.courses)

\* the student exists, the course does not
C9_Witness ==
  /\ last.op = "enrollStudentInCourse"
  /\ last.msg = MsgCourseNotFound
  /\ findStudentIndex(students, last.studentID) # -1
  /\ findCourseIndex(courses, last.courseCode) = -1
  /\ Len(courses) >= 1

\* C10: removeStudentFromCourse(s, c) leaves the registry unchanged when s or
\* c is absent and when both exist but c is not in s's enrolled-course list;
\* when c is in s's list, afterwards c is not in s's list and s is not in
\* c's roster.
C10_UnenrollContract ==
  last.op = "removeStudentFromCourse" =>
    LET sIdx == findStudentIndex(prev.students, last.studentID)
        cIdx == findCourseIndex(prev.courses, last.courseCode)
    IN IF sIdx = -1 \/ cIdx = -1
       THEN students = prev.students /\ courses = prev.courses
       ELSE IF ~Contains(prev.students[sIdx + 1].enrolledCourses, last.courseCode)
            THEN students = prev.students /\ courses = prev.courses
            ELSE /\ ~Contains(students[sIdx + 1].enrolledCourses, last.courseCode)
                 /\ ~Contains(courses[cIdx + 1].enrolledStudentIDs, last.studentID)

\* the data rows of a CSV file: its lines after the header line
RowsOf(file) ==
  IF file = NoFile \/ GetLines(file, NL) = <<>> THEN <<>> ELSE Tail(GetLines(file, NL))

\* the elements of a sequence
Range(v) == { v[i] : i \in 1..Len(v) }

\* the key of a row: its first comma-separated field
RowKey(line) == TakeUntil(line, ",")

\* C11: during loadData, a students row whose id is already the id of a
\* student, and a courses row whose code is already the code of a course,
\* leaves the registry as it was before the row, the enrolled-course list or
\* roster of the record holding that key included; a later row with a new
\* key is still added.
C11_DuplicateRowRejected ==
  last.op = "loadData" =>
    /\ \A k \in 1..Len(RowsOf(studentsFile)) :
         LET rows == RowsOf(studentsFile)
             before == LoadStudentLines(<<>>, <<>>, SubSeq(rows, 1, k - 1))
             after == LoadStudentLine(before, <<>>, rows[k])
         IN IF findStudentIndex(before, RowKey(rows[k])) # -1
            THEN after = before
            ELSE rows[k] = <<>> \/ Len(after) >= Len(before)
    /\ \A k \in 1..Len(RowsOf(coursesFile)) :
         LET rows == RowsOf(coursesFile)
             before == LoadCourseLines(students, <<>>, SubSeq(rows, 1, k - 1))
             after == LoadCourseLine(students, before, rows[k])
         IN IF findCourseIndex(before, RowKey(rows[k])) # -1
            THEN after = before
            ELSE rows[k] = <<>> \/ findCourseIndex(after, RowKey(rows[k])) # -1

\* C12: for a course of the registry, generateReportForCourse writes the
\* header StudentID,Name,Type and then exactly one row per id of the roster,
\* in roster order, each row being id,name,kind of that student: as many
\* rows as the roster has ids.
C12_CourseReportRows ==
  (last.op = "generateReportForCourse" /\ last.msg = MsgCourseReportSaved) =>
    LET roster == courses[findCourseIndex(courses, last.courseCode) + 1].enrolledStudentIDs
    IN /\ Len(out.rows) = Len(roster)
       /\ \A k \in 1..Len(roster) :
            LET sIdx == findStudentIndex(students, roster[k])
            IN /\ sIdx # -1
               /\ out.rows[k] = roster[k] \o <<",">> \o students[sIdx + 1].name
                                  \o <<",">> \o students[sIdx + 1].type
       /\ out.file = ReportStudentHeader \o <<NL>> \o Concat(out.rows)

\* the student report of studentID on a registry
ReportOf(studs, crs, studentID) == generateReportForStudent(studs, crs, studentID, TRUE)

\* the registry after removeCourse(c), addCourse(name, c) and
\* enrollStudentInCourse(s, c), one after the other
Reenrolled(studs, crs, studentID, courseName, courseCode) ==
  LET r1 == removeCourse(studs, crs, courseCode)
      r2 == addCourse(r1.students, r1.courses, courseName, courseCode)
  IN enrollStudentInCourse(r2.students, r2.courses, studentID, courseCode)

\* the rows of a report without the row of a course
WithoutRow(rows, row) == SelectSeq(rows, LAMBDA r : r # row)

\* C13 as stated: a student report was produced for s; for every course c
\* of s's list, the report after removeCourse(c) has no row of c, and the
\* report after c is added again with its code and name and s is enrolled
\* again is the report produced before, rows and row order.
C13_ReportIdenticalAfterReenroll ==
  (last.op = "generateReportForStudent" /\ last.msg = MsgStudentReportSaved) =>
    \A j \in 1..Len(courses) :
      LET s == last.studentID
          co == courses[j]
          row == co.courseCode \o <<",">> \o co.courseName
          removed == removeCourse(students, courses, co.courseCode)
          again == Reenrolled(students, courses, s, co.courseName, co.courseCode)
      IN Contains(students[findStudentIndex(students, s) + 1].enrolledCourses, co.courseCode) =>
           /\ ~Contains(ReportOf(removed.students, removed.courses, s).rows, row)
           /\ ReportOf(again.students, again.courses, s).rows = out.rows
           /\ ReportOf(again.students, again.courses, s).file = out.file

\* C13, amended: the report after removeCourse(c) has no row of c; the report
\* after c is added again and s is enrolled again has the rows of the report
\* produced before with the row of c moved to the end, so it is identical
\* exactly when the row of c was the last one.
C13_ReportRowMovesToEnd ==
  (last.op = "generateReportForStudent" /\ last.msg = MsgStudentReportSaved) =>
    \A j \in 1..Len(courses) :
      LET s == last.studentID
          co == courses[j]
          row == co.courseCode \o <<",">> \o co.courseName
          removed == removeCourse(students, courses, co.courseCode)
          again == Reenrolled(students, courses, s, co.courseName, co.courseCode)
          after == ReportOf(again.students, again.courses, s)
      IN Contains(students[findStudentIndex(students, s) + 1].enrolledCourses, co.courseCode) =>
           /\ again.msg = MsgEnrolled
           /\ ~Contains(ReportOf(removed.students, removed.courses, s).rows, row)
           /\ Contains(out.rows, row)
           /\ after.rows = Append(WithoutRow(out.rows, row), row)
           /\ (after.file = out.file) <=> (out.rows[Len(out.rows)] = row)

\* a report was produced for a student enrolled in two courses
C13_Witness ==
  /\ last.op = "generateReportForStudent"
  /\ last.msg = MsgStudentReportSaved
  /\ Len(out.rows) = 2
  /\ Len(courses) = 2

\* C14: in the menu loop, the step that takes exit (0) writes the students
\* export and the courses export of the registry as it is at that moment
\* before the loop ends, and a step that changes the students file or the
\* courses file is a step of menu choice 12 or of exit: no add, remove,
\* enroll, unenroll, search, list or report step writes either file.
C14_FilesWrittenOnExportAndExit ==
  [][ /\ (pc = "menu" /\ pc' = "exited") =>
           /\ last'.op = "exit"
           /\ exportStudentsToCSV(students) = studentsFile'
           /\ exportCoursesToCSV(courses) = coursesFile'
      /\ (studentsFile' # studentsFile \/ coursesFile' # coursesFile) =>
           last'.op \in {"export", "exit"}
      /\ last'.op \in {"addStudent", "removeStudent", "listStudents", "searchStudent",
                       "addCourse", "removeCourse", "listCourses",
                       "enrollStudentInCourse", "removeStudentFromCourse",
                       "generateReportForCourse", "generateReportForStudent"} =>
           (studentsFile' = studentsFile /\ coursesFile' = coursesFile) ]_vars

\* the loop has ended on exit with a student and a course in the registry,
\* both written to the files
C14_Witness ==
  /\ pc = "exited"
  /\ last.op = "exit"
  /\ Len(students) >= 1
  /\ Len(courses) >= 1
  /\ exportStudentsToCSV(students) = studentsFile
  /\ exportCoursesToCSV(courses) = coursesFile

\* C15: generateReportForCourse, generateReportForStudent and the two
\* exports (menu choice 12 and exit) leave the students and the courses of
\* the registry as they were, whether the output file opens or not.
C15_ReportsAndExportsKeepRegistry ==
  last.op \in {"generateReportForCourse", "generateReportForStudent", "export", "exit"} =>
    (students = prev.students /\ courses = prev.courses)

\* a course report whose file did not open, on a registry with a course
C15_Witness ==
  /\ last.op = "generateReportForCourse"
  /\ last.msg = MsgReportOpenError
  /\ Len(courses) >= 1
  /\ courses = prev.courses

\* the kind field of a students row: its third comma-separated field
RowType(line) == TakeUntil(DropThrough(DropThrough(line, ","), ","), ",")

\* C16: addStudent with an id that is not the id of a student and a kind
\* other than Undergraduate and Postgraduate reports an error and leaves the
\* registry unchanged, and with one of the two kinds it appends the student;
\* so in every reachable state, after loadData too, the kind of every
\* student is Undergraduate or Postgraduate.
C16_KindIsValid ==
  /\ \A i \in 1..Len(students) : students[i].type \in {UNDERGRADUATE, POSTGRADUATE}
  /\ \A name \in {trim(n) : n \in NameInputs}, studentID \in StudentIDInputs,
        type \in TypeInputs :
        findStudentIndex(students, studentID) = -1 =>
          addStudent(students, courses, name, studentID, type) =
            IF type \in {UNDERGRADUATE, POSTGRADUATE}
            THEN Result(Append(students, NewStudent(name, studentID, type)), courses,
                        MsgStudentAdded)
            ELSE Result(students, courses, MsgUnknownType)
  /\ (last.op = "addStudent" /\ findStudentIndex(prev.students, last.studentID) = -1) =>
        /\ last.msg = MsgStudentAdded
        /\ Len(students) = Len(prev.students) + 1
        /\ SubSeq(students, 1, Len(prev.students)) = prev.students
        /\ students[Len(students)].studentID = last.studentID
        /\ courses = prev.courses

\* loadData has read a students row whose kind field is neither kind, and
\* the registry has no student of that row's id
C16_Witness ==
  /\ last.op = "loadData"
  /\ \E k \in 1..Len(RowsOf(studentsFile)) :
       /\ RowType(RowsOf(studentsFile)[k]) \notin {UNDERGRADUATE, POSTGRADUATE}
       /\ findStudentIndex(students, RowKey(RowsOf(studentsFile)[k])) = -1
  /\ Len(students) >= 1

\* C17: after an export that opened its file, the students file (the courses
\* file) is the text exportStudentsToCSV (exportCoursesToCSV) makes of the
\* registry as it is, with nothing of the earlier content, and a second
\* export with no change of the registry in between leaves the same file.
C17_ExportOverwrites ==
  last.op \in {"export", "exit"} =>
    /\ out.rows[1] = MsgStudentsExported =>
         /\ exportStudentsToCSV(students) = studentsFile
         /\ WriteFile(studentsFile, exportStudentsToCSV(students)) = studentsFile
    /\ out.rows[2] = MsgCoursesExported =>
         /\ exportCoursesToCSV(courses) = coursesFile
         /\ WriteFile(coursesFile, exportCoursesToCSV(courses)) = coursesFile

\* menu choice 12, the last command the bound allows, has opened and written
\* both files for a registry with a student and a course
C17_Witness ==
  /\ last.op = "export"
  /\ out.rows = <<MsgStudentsExported, MsgCoursesExported>>
  /\ Len(students) >= 1
  /\ Len(courses) >= 1
  /\ cmds = MaxMenuCmds

\* C18: a step in which ESC, in any spelling and with blanks around it, is
\* typed at a prompt of a menu case leaves the students, the courses and the
\* two files unchanged and returns to the menu; as long as a case is still
\* prompting nothing of them has changed, so the registry is called only
\* after the last prompt has returned and never for a cancelled case.
C18_CancelKeepsRegistry ==
  [][ /\ \A raw \in EscInputs :
           TypeLine(raw) =>
             /\ pc' = "menu"
             /\ last'.msg = MsgCancelled
             /\ UNCHANGED <<students, courses, studentsFile, coursesFile>>
      /\ pc' = "prompt" => UNCHANGED <<students, courses, studentsFile, coursesFile>>
      /\ (pc = "prompt" /\ Len(pending.lines) + 1 < Prompts(pending.choice)) =>
           UNCHANGED <<students, courses, studentsFile, coursesFile>> ]_vars

\* a case was cancelled at a prompt, with a student in the registry and the
\* files written
C18_Witness ==
  /\ last.op = "cancelled"
  /\ pc = "menu"
  /\ Len(students) >= 1
  /\ studentsFile # NoFile
  /\ coursesFile # NoFile

\* keyword occurs in text as a run of consecutive characters, letter case
\* as it is
IsSubstring(keyword, text) ==
  \E i \in 1..(Len(text) - Len(keyword) + 1) :
    \A j \in 1..Len(keyword) : text[i + j - 1] = keyword[j]

\* the student matches the keyword by name, by id or by an enrolled course
Matches(st, keyword) ==
  \/ IsSubstring(keyword, st.name)
  \/ IsSubstring(keyword, st.studentID)
  \/ \E k \in 1..Len(st.enrolledCourses) : IsSubstring(keyword, st.enrolledCourses[k])

\* C19: searchStudent(keyword) prints exactly the students whose name, id or
\* one of whose enrolled course codes contains keyword as a case-sensitive
\* substring, each of them once and in the order of the registry, and it
\* prints 'no match' exactly when no student matches.
C19_SearchReportsMatches ==
  last.op = "searchStudent" =>
    LET matching == SelectSeq(students, LAMBDA st : Matches(st, out.arg))
    IN /\ out.rows = [i \in 1..Len(matching) |-> StudentRow(matching[i])]
       /\ (last.msg = MsgNoMatch) <=> (matching = <<>>)

\* the search printed a student that matches by an enrolled course code
\* only
C19_Witness ==
  /\ last.op = "searchStudent"
  /\ last.msg = MsgNone
  /\ \E i \in 1..Len(students) :
       /\ out.rows[Len(out.rows)] = StudentRow(students[i])
       /\ ~IsSubstring(out.arg, students[i].name)
       /\ ~IsSubstring(out.arg, students[i].studentID)
       /\ Contains(students[i].enrolledCourses, <<"C", "1">>)

\* a list or roster without the entries equal to x, the others in their order
Without(v, x) == SelectSeq(v, LAMBDA e : e # x)

\* the students are those of before, same order, names, ids and kinds, and
\* only the student studentID has another list, namely list
OnlyListChanged(before, after, studentID, list) ==
  /\ Len(after) = Len(before)
  /\ \A i \in 1..Len(before) :
       after[i] = IF before[i].studentID = studentID
                  THEN [before[i] EXCEPT !.enrolledCourses = list]
                  ELSE before[i]

\* the courses are those of before, same order, names and codes, and only
\* the course courseCode has another roster, namely roster
OnlyRosterChanged(before, after, courseCode, roster) ==
  /\ Len(after) = Len(before)
  /\ \A j \in 1..Len(before) :
       after[j] = IF before[j].courseCode = courseCode
                  THEN [before[j] EXCEPT !.enrolledStudentIDs = roster]
                  ELSE before[j]

\* C20: a successful enrollStudentInCourse(s, c) appends c at the end of s's
\* list and s at the end of c's roster (unless the roster already holds s),
\* and a successful removeStudentFromCourse(s, c) takes c out of s's list and
\* s out of c's roster; the other entries of that list and roster keep their
\* order, and every other student, course, list, roster, name and kind is as
\* before.
C20_EnrollFrame ==
  /\ (last.op = "enrollStudentInCourse" /\ last.msg = MsgEnrolled) =>
       LET st == prev.students[findStudentIndex(prev.students, last.studentID) + 1]
           co == prev.courses[findCourseIndex(prev.courses, last.courseCode) + 1]
       IN /\ OnlyListChanged(prev.students, students, last.studentID,
                             Append(st.enrolledCourses, last.courseCode))
          /\ OnlyRosterChanged(prev.courses, courses, last.courseCode,
                               IF Contains(co.enrolledStudentIDs, last.studentID)
                               THEN co.enrolledStudentIDs
                               ELSE Append(co.enrolledStudentIDs, last.studentID))
  /\ (last.op = "removeStudentFromCourse" /\ last.msg = MsgUnenrolled) =>
       LET st == prev.students[findStudentIndex(prev.students, last.studentID) + 1]
           co == prev.courses[findCourseIndex(prev.courses, last.courseCode) + 1]
       IN /\ OnlyListChanged(prev.students, students, last.studentID,
                             Without(st.enrolledCourses, last.courseCode))
          /\ OnlyRosterChanged(prev.courses, courses, last.courseCode,
                               Without(co.enrolledStudentIDs, last.studentID))

\* a student enrolled in two courses was removed from the first of them and
\* is left with the other
C20_Witness ==
  /\ last.op = "removeStudentFromCourse"
  /\ last.msg = MsgUnenrolled
  /\ \E i \in 1..Len(students) :
       /\ students[i].studentID = last.studentID
       /\ Len(students[i].enrolledCourses) = 1
       /\ Len(prev.students[i].enrolledCourses) = 2
       /\ prev.students[i].enrolledCourses[1] = last.courseCode

====
